---- MODULE Spec2Model ----
(***************************************************************************)
(* A model of the hecaitou blog tools:                                     *)
(*   audit_collection.py  - URL normaliser, paginated feed walker,         *)
(*                          label/keyword classifier, gap reporter         *)
(*   scraper.py           - candidate collection, the per-article          *)
(*                          extraction/saving batch loop and the           *)
(*                          structural text extractor                      *)
(* Text is modelled as sequences of character codes (ASCII), so that       *)
(* percent-decoding, re-encoding, splitting and substring search are       *)
(* computed the way the library routines compute them.                     *)
(***************************************************************************)
EXTENDS Integers, Sequences, FiniteSets, TLC

(***************************************************************************)
(* Characters and strings                                                  *)
(***************************************************************************)

\* The printable ASCII characters in code order, starting at code 32 (the
\* double quote, the backslash and the backtick are spelled out).
Printable ==
  << " ", "!", "dquote", "#", "$", "%", "&", "'", "(", ")", "*", "+", ",", "-", ".", "/",
     "0", "1", "2", "3", "4", "5", "6", "7", "8", "9", ":", ";", "<", "=", ">", "?",
     "@", "A", "B", "C", "D", "E", "F", "G", "H", "I", "J", "K", "L", "M", "N", "O",
     "P", "Q", "R", "S", "T", "U", "V", "W", "X", "Y", "Z", "[", "backslash", "]", "^", "_",
     "backtick", "a", "b", "c", "d", "e", "f", "g", "h", "i", "j", "k", "l", "m", "n", "o",
     "p", "q", "r", "s", "t", "u", "v", "w", "x", "y", "z", "{", "|", "}", "~" >>

\* The code of a printable character.
Ord(c) == 31 + (CHOOSE i \in 1..Len(Printable) : Printable[i] = c)

\* A string literal, written as a tuple of one-character strings, as codes.
Str(t) == [i \in 1..Len(t) |-> Ord(t[i])]

IsAlpha(c) == c \in 65..90 \/ c \in 97..122
IsDigit(c) == c \in 48..57

\* str.lower() on ASCII text.
Lower(s) == [i \in 1..Len(s) |-> IF s[i] \in 65..90 THEN s[i] + 32 ELSE s[i]]

\* First index >= from at which s holds the code c; 0 when there is none
\* (str.find, 1-based).
Find(s, c, from) ==
  LET hits == {i \in from..Len(s) : s[i] = c}
  IN  IF hits = {} THEN 0 ELSE CHOOSE i \in hits : \A j \in hits : i <= j

\* s[from:] of Python, 1-based.
From(s, from) == SubSeq(s, from, Len(s))

\* str.strip(): the whitespace of str.isspace() within ASCII.
Whitespace == {9, 10, 11, 12, 13, 28, 29, 30, 31, 32}

RECURSIVE LStrip(_, _)
LStrip(s, drop) ==
  IF s # <<>> /\ s[1] \in drop THEN LStrip(Tail(s), drop) ELSE s

RECURSIVE RStrip(_, _)
RStrip(s, drop) ==
  IF s # <<>> /\ s[Len(s)] \in drop THEN RStrip(SubSeq(s, 1, Len(s) - 1), drop) ELSE s

Strip(s) == RStrip(LStrip(s, Whitespace), Whitespace)

(***************************************************************************)
(* urllib.parse as normalize_url uses it                                   *)
(***************************************************************************)

IsHex(c) == c \in 48..57 \/ c \in 65..70 \/ c \in 97..102
HexVal(c) == IF c \in 48..57 THEN c - 48 ELSE IF c \in 65..70 THEN c - 55 ELSE c - 87
HexChar(n) == IF n < 10 THEN 48 + n ELSE 55 + n

\* unquote(): every "%XY" with two hex digits becomes the byte XY, scanning
\* left to right; a "%" not followed by two hex digits stays as it is.  The
\* texts of this model decode to ASCII bytes only (see UrlAlphabet).
RECURSIVE unquote(_)
unquote(s) ==
  IF s = <<>> THEN <<>>
  ELSE IF s[1] = 37 /\ Len(s) >= 3 /\ IsHex(s[2]) /\ IsHex(s[3])
       THEN <<16 * HexVal(s[2]) + HexVal(s[3])>> \o unquote(From(s, 4))
       ELSE <<s[1]>> \o unquote(Tail(s))

\* Characters quote() never escapes: letters, digits and "_.-~".
AlwaysSafe == {c \in 0..127 : IsAlpha(c) \/ IsDigit(c)} \cup {95, 46, 45, 126}

\* quote(s, safe): every character outside AlwaysSafe and safe becomes "%XY",
\* upper-case hex.
RECURSIVE quote(_, _)
quote(s, safe) ==
  IF s = <<>> THEN <<>>
  ELSE (IF s[1] \in AlwaysSafe \cup safe
        THEN <<s[1]>>
        ELSE <<37, HexChar(s[1] \div 16), HexChar(s[1] % 16)>>) \o quote(Tail(s), safe)

\* The characters a URL scheme may hold (urllib.parse.scheme_chars).
SchemeChars == {c \in 0..127 : IsAlpha(c) \/ IsDigit(c)} \cup {43, 45, 46}

\* urlsplit(): scheme up to the first ":", netloc after "//" up to the first of
\* "/?#", then the fragment after the first "#", then the query after the
\* first "?".  Leading C0 controls and spaces are dropped and tab, CR, LF
\* are removed first.
urlsplit(raw) ==
  LET u0 == LStrip(raw, 0..32)
      url == SelectSeq(u0, LAMBDA c : c \notin {9, 10, 13})
      i == Find(url, 58, 1)
      hasScheme == i > 1 /\ IsAlpha(url[1]) /\ \A k \in 1..(i - 1) : url[k] \in SchemeChars
      scheme == IF hasScheme THEN Lower(SubSeq(url, 1, i - 1)) ELSE <<>>
      r1 == IF hasScheme THEN From(url, i + 1) ELSE url
      hasNet == Len(r1) >= 2 /\ r1[1] = 47 /\ r1[2] = 47
      ends == {Find(r1, c, 3) : c \in {47, 63, 35}} \ {0}
      delim == IF ends = {} THEN Len(r1) + 1 ELSE CHOOSE d \in ends : \A e \in ends : d <= e
      netloc == IF hasNet THEN SubSeq(r1, 3, delim - 1) ELSE <<>>
      r2 == IF hasNet THEN From(r1, delim) ELSE r1
      h == Find(r2, 35, 1)
      fragment == IF h > 0 THEN From(r2, h + 1) ELSE <<>>
      r3 == IF h > 0 THEN SubSeq(r2, 1, h - 1) ELSE r2
      q == Find(r3, 63, 1)
      query == IF q > 0 THEN From(r3, q + 1) ELSE <<>>
      path == IF q > 0 THEN SubSeq(r3, 1, q - 1) ELSE r3
  IN  [scheme |-> scheme, netloc |-> netloc, path |-> path,
       query |-> query, fragment |-> fragment]

\* Schemes for which urlunsplit writes "//" even with an empty netloc
\* (the http and https members of urllib.parse.uses_netloc).
UsesNetloc == {Str(<<"h", "t", "t", "p">>), Str(<<"h", "t", "t", "p", "s">>)}

\* urlunsplit(): empty query and fragment are dropped with their delimiter.
urlunsplit(p) ==
  LET withNet == p.netloc # <<>>
                 \/ (p.scheme # <<>> /\ p.scheme \in UsesNetloc
                     /\ SubSeq(p.path, 1, 2) # <<47, 47>>)
      u1 == IF withNet
            THEN <<47, 47>> \o p.netloc
                 \o (IF p.path # <<>> /\ p.path[1] # 47 THEN <<47>> ELSE <<>>) \o p.path
            ELSE p.path
      u2 == IF p.scheme # <<>> THEN p.scheme \o <<58>> \o u1 ELSE u1
      u3 == IF p.query # <<>> THEN u2 \o <<63>> \o p.query ELSE u2
  IN  IF p.fragment # <<>> THEN u3 \o <<35>> \o p.fragment ELSE u3

SafePath == {Ord(c) : c \in {"/", "~", "%", ":", "@", "!", "$", "&", "'", "(", ")", "*", "+", ",", ";", "="}}
SafeQuery == {Ord(c) : c \in {"=", "&", "%"}}
SafeFragment == {}

\* normalize_url(): lower-case scheme and netloc; path, query and fragment
\* are percent-decoded and re-encoded with the component's safe set.
normalize_url(url) ==
  LET parts == urlsplit(Strip(url))
  IN  urlunsplit([scheme |-> Lower(parts.scheme),
                  netloc |-> Lower(parts.netloc),
                  path |-> quote(unquote(parts.path), SafePath),
                  query |-> quote(unquote(parts.query), SafeQuery),
                  fragment |-> quote(unquote(parts.fragment), SafeFragment)])

(***************************************************************************)
(* Inputs of the normaliser runs (SpecUrl)                                 *)
(***************************************************************************)

\* Longest tail appended to a URL prefix.
MaxTail == 5

\* Characters of the tails: "%", "2", "5" (escapes, among them "%25" and
\* "%2525"), and the delimiters "/" and "#".  Every byte these decode to
\* is ASCII.
UrlAlphabet == {Ord(c) : c \in {"%", "2", "5", "/", "#"}}

UrlPrefixes ==
  { Str(<<"h", "t", "t", "p", ":", "/", "/", "h", "/">>),
    Str(<<" ", "H", "T", "T", "P", ":", "/", "/", "H", "?">>),
    Str(<<"h", "t", "t", "p", ":", "/", "/", "h", "#">>) }

RECURSIVE Words(_, _)
Words(alphabet, n) ==
  IF n = 0 THEN {<<>>}
  ELSE LET shorter == Words(alphabet, n - 1)
       IN  shorter \cup {w \o <<c>> : w \in {v \in shorter : Len(v) = n - 1}, c \in alphabet}

UrlInputs == {p \o t : p \in UrlPrefixes, t \in Words(UrlAlphabet, MaxTail)}

(***************************************************************************)
(* audit_collection.py: feed entries, the walker's helpers                 *)
(***************************************************************************)

\* A raw entry of the feed's JSON carries: title, url (the href of its
\* alternate link, <<>> when it has none), published, labels (the stripped
\* non-empty category terms), content and summary.  published is a day
\* number when the text is an ISO timestamp, PublishedAbsent when the field
\* is missing or blank, PublishedGarbled when the text is not an ISO
\* timestamp (datetime.fromisoformat raises ValueError).
PublishedAbsent == 0
PublishedGarbled == -1

\* The entry is kept only with a title, a link and a publish timestamp.
Usable(raw) ==
  /\ Strip(raw.title) # <<>>
  /\ raw.url # <<>>
  /\ raw.published # PublishedAbsent

\* FeedEntry(...) as iter_recent_posts builds it.
ToFeedEntry(raw) ==
  [title |-> Strip(raw.title),
   url |-> normalize_url(raw.url),
   published |-> raw.published,
   labels |-> raw.labels,
   content |-> IF Strip(raw.content) # <<>> THEN Strip(raw.content) ELSE Strip(raw.summary)]

\* The feed endpoint: the entries start_index .. start_index+max_results-1
\* of the feed (1-based), fewer or none past its end.
PageOf(fd, start_index, max_results) ==
  SubSeq(fd, start_index,
         IF start_index + max_results - 1 < Len(fd)
         THEN start_index + max_results - 1 ELSE Len(fd))

\* Decoding a page raises when a usable entry's timestamp does not parse.
DecodeRaises(entries) ==
  \E i \in 1..Len(entries) : Usable(entries[i]) /\ entries[i].published = PublishedGarbled

RECURSIVE MapEntries(_)
MapEntries(entries) ==
  IF entries = <<>> THEN <<>>
  ELSE (IF Usable(entries[1]) THEN <<ToFeedEntry(entries[1])>> ELSE <<>>)
       \o MapEntries(Tail(entries))

\* page_entries: the usable entries of the page, in page order.
PageEntries(entries) == MapEntries(entries)

\* min(e.published for e in page_entries); only asked of a non-empty page.
OldestOnPage(pe) ==
  CHOOSE d \in {pe[i].published : i \in 1..Len(pe)} :
    \A i \in 1..Len(pe) : d <= pe[i].published

\* A window test that forgets the upper bound.
InWindowNoUpper(entry, start_date, end_date) == start_date <= entry.published

\* start_date <= entry.published <= end_date
InWindow(entry, start_date, end_date) ==
  start_date <= entry.published /\ entry.published <= end_date

\* A stop test that also takes a page without any entry in the window for
\* the end of the feed.
StopAfterPageOnNothingNew(pe, start_date, end_date) ==
  \/ pe = <<>>
  \/ OldestOnPage(pe) < start_date
  \/ \A i \in 1..Len(pe) : ~InWindow(pe[i], start_date, end_date)

\* if oldest_on_page is None or oldest_on_page < start_date: return
StopAfterPage(pe, start_date, end_date) ==
  pe = <<>> \/ OldestOnPage(pe) < start_date

\* Offsets that do not advance, or advance by one entry instead of one page.
NextIndexStuck(start_index, max_results) == start_index
NextIndexByOne(start_index, max_results) == start_index + 1

\* start_index += max_results
NextIndex(start_index, max_results) == start_index + max_results

\* A walker that takes a failed page for the end of the feed.
OnFetchErrorSwallow == "report"

\* What iter_recent_posts and main do with an exception of _fetch_feed_page
\* or of the page's decoding: nothing catches it, the run dies.
OnFetchError == "failed"

(***************************************************************************)
(* audit_collection.py: local archive index, classifier, report            *)
(***************************************************************************)

\* read_local_urls(): every file with a link line whose text is not blank
\* gives one normalised URL.  A file is modelled by its link line's text,
\* <<>> for a file without one.
read_local_urls(files) == {normalize_url(Strip(f)) : f \in {g \in files : Strip(g) # <<>>}}

\* needle occurs in hay (re.search of an escaped literal).
Contains(hay, needle) ==
  \E i \in 1..(Len(hay) - Len(needle) + 1) : SubSeq(hay, i, i + Len(needle) - 1) = needle

\* re.compile("|".join(re.escape(k) ...)).search(text)
Search(keywords, text) == \E i \in 1..Len(keywords) : Contains(text, keywords[i])

\* A classifier that runs every present test before deciding.
ClassifyNoShortCircuit(entry, a) ==
  LET byLabel == a.labels # {} /\ entry.labels \cap a.labels # {}
      byTitle == a.title_keywords # <<>> /\ Search(a.title_keywords, entry.title)
      byContent == a.content_keywords # <<>> /\ Search(a.content_keywords, entry.content)
  IN  [matched |-> byLabel \/ byTitle \/ byContent,
       evaluated |-> (IF a.labels # {} THEN <<"label">> ELSE <<>>)
                     \o (IF a.title_keywords # <<>> THEN <<"title">> ELSE <<>>)
                     \o (IF a.content_keywords # <<>> THEN <<"content">> ELSE <<>>)]

\* The if/elif chain of main's loop.  evaluated lists the criteria whose test
\* ran: "label" for the any(...) over the labels, "title" and "content" for
\* the pattern searches.
Classify(entry, a) ==
  IF a.labels # {} /\ entry.labels \cap a.labels # {}
  THEN [matched |-> TRUE, evaluated |-> <<"label">>]
  ELSE LET e1 == IF a.labels # {} THEN <<"label">> ELSE <<>>
       IN  IF a.title_keywords # <<>> /\ Search(a.title_keywords, entry.title)
           THEN [matched |-> TRUE, evaluated |-> e1 \o <<"title">>]
           ELSE LET e2 == IF a.title_keywords # <<>> THEN e1 \o <<"title">> ELSE e1
                IN  IF a.content_keywords # <<>> /\ Search(a.content_keywords, entry.content)
                    THEN [matched |-> TRUE, evaluated |-> e2 \o <<"content">>]
                    ELSE [matched |-> FALSE,
                          evaluated |-> IF a.content_keywords # <<>>
                                        THEN e2 \o <<"content">> ELSE e2]

\* Python's order on str, by code point.
RECURSIVE LexLess(_, _)
LexLess(s, t) ==
  IF t = <<>> THEN FALSE
  ELSE IF s = <<>> THEN TRUE
  ELSE IF s[1] # t[1] THEN s[1] < t[1]
  ELSE LexLess(Tail(s), Tail(t))

\* key=lambda x: (x.published, x.url), compared as tuples
KeyLess(x, y) ==
  x.published < y.published \/ (x.published = y.published /\ LexLess(x.url, y.url))

\* sorted(): stable, ascending by key.
RECURSIVE InsertByKey(_, _)
InsertByKey(sortedSeq, x) ==
  IF sortedSeq = <<>> THEN <<x>>
  ELSE IF KeyLess(x, sortedSeq[1]) THEN <<x>> \o sortedSeq
  ELSE <<sortedSeq[1]>> \o InsertByKey(Tail(sortedSeq), x)

RECURSIVE SortByKey(_)
SortByKey(s) ==
  IF s = <<>> THEN <<>> ELSE InsertByKey(SortByKey(SubSeq(s, 1, Len(s) - 1)), s[Len(s)])

\* A writer that lists the records as collected.
SortedMissingFeedOrder(miss) == miss

\* sorted(missing, key=...) of write_text, write_json and write_csv.
SortedMissing(miss) == SortByKey(miss)

\* The summary main builds after the loop.
Summary(a, localUrls, matchedList, missingList) ==
  [from |-> a.from_date, to |-> a.to_date, local_count |-> Cardinality(localUrls),
   matched_count |-> Len(matchedList), missing_count |-> Len(missingList)]

\* What the chosen writer puts out: write_text and write_json the summary
\* and the sorted rows, write_csv the sorted rows alone.
Render(fmt, summary, miss) ==
  [format |-> fmt,
   summary |-> IF fmt = "csv" THEN <<>> ELSE <<summary>>,
   rows |-> SortedMissing(miss)]

(***************************************************************************)
(* scraper.py: candidate collection and the batch loop                     *)
(***************************************************************************)

\* dates are <<year, month, day>>; <<>> stands for None.
IsLeap(y) == (y % 4 = 0 /\ y % 100 # 0) \/ y % 400 = 0

DaysIn(y, m) ==
  IF m = 2 THEN (IF IsLeap(y) THEN 29 ELSE 28)
  ELSE IF m \in {4, 6, 9, 11} THEN 30 ELSE 31

\* datetime(y, m, d) raises ValueError outside these ranges.
DatetimeRaises(y, m, d) ==
  ~(y \in 1..9999 /\ m \in 1..12 /\ d \in 1..DaysIn(y, m))

\* int() of a run of decimal digits.
RECURSIVE ToInt(_)
ToInt(digits) ==
  IF digits = <<>> THEN 0
  ELSE 10 * ToInt(SubSeq(digits, 1, Len(digits) - 1)) + (digits[Len(digits)] - 48)

AllDigits(s) == \A i \in 1..Len(s) : IsDigit(s[i])

\* re.search(r"/(\d{4})/(\d{2})/", url): the leftmost match's start, 0 if none.
UrlDateAt(url) ==
  LET hits == {i \in 1..(Len(url) - 8) :
                 /\ url[i] = 47 /\ url[i + 5] = 47 /\ url[i + 8] = 47
                 /\ AllDigits(SubSeq(url, i + 1, i + 4))
                 /\ AllDigits(SubSeq(url, i + 6, i + 7))}
  IN  IF hits = {} THEN 0 ELSE CHOOSE i \in hits : \A j \in hits : i <= j

UrlYear(url) == ToInt(SubSeq(url, UrlDateAt(url) + 1, UrlDateAt(url) + 4))
UrlMonth(url) == ToInt(SubSeq(url, UrlDateAt(url) + 6, UrlDateAt(url) + 7))

\* parse_date_from_url raises when the URL's month is no month.
ParseDateRaises(url) ==
  UrlDateAt(url) # 0 /\ DatetimeRaises(UrlYear(url), UrlMonth(url), 1)

\* parse_date_from_url(url): datetime(year, month, 1), or None.
parse_date_from_url(url) ==
  IF UrlDateAt(url) = 0 THEN <<>> ELSE <<UrlYear(url), UrlMonth(url), 1>>

YearRangeFrom == 2023
YearRangeTo == 2025

is_in_year_range(date) ==
  date # <<>> /\ YearRangeFrom <= date[1] /\ date[1] <= YearRangeTo

DotHtml == Str(<<".", "h", "t", "m", "l">>)

\* An index page (label page or search page) as fetched: ok is FALSE when
\* get_page returned None; the three lists are the <title, href> pairs the
\* three selector groups find, in document order.
\* post_links of get_articles_from_label_page: the first group that finds
\* anything; the container group keeps only hrefs with ".html" and gives a
\* blank title a placeholder.
LabelPostLinks(page) ==
  IF page.post_title # <<>> THEN page.post_title
  ELSE IF page.entry_title # <<>> THEN page.entry_title
  ELSE LET kept == SelectSeq(page.container, LAMBDA l : Contains(l.href, DotHtml))
       IN  [i \in 1..Len(kept) |->
              [title |-> IF kept[i].title = "" THEN "untitled" ELSE kept[i].title,
               href |-> kept[i].href]]

\* post_links of get_articles_from_search: the title selectors together.
SearchPostLinks(page) == page.post_title \o page.entry_title

\* The de-duplication loop of both functions: the first occurrence of every
\* href (compared as written), kept when its URL date is in the year range.
\* requireHtml is the search function's extra test on the href.
RECURSIVE Dedup(_, _, _, _)
Dedup(links, seen, label, requireHtml) ==
  IF links = <<>> THEN <<>>
  ELSE LET l == links[1]
           fresh == l.href \notin seen /\ (~requireHtml \/ Contains(l.href, DotHtml))
           date == parse_date_from_url(l.href)
       IN  (IF fresh /\ is_in_year_range(date)
            THEN <<[title |-> l.title, url |-> l.href, date |-> date, label |-> label]>>
            ELSE <<>>)
           \o Dedup(Tail(links), IF fresh THEN seen \cup {l.href} ELSE seen, label, requireHtml)

\* The loop raises at the first fresh href whose date does not build.
RECURSIVE DedupRaises(_, _, _)
DedupRaises(links, seen, requireHtml) ==
  IF links = <<>> THEN FALSE
  ELSE LET l == links[1]
           fresh == l.href \notin seen /\ (~requireHtml \/ Contains(l.href, DotHtml))
       IN  \/ (fresh /\ ParseDateRaises(l.href))
           \/ DedupRaises(Tail(links), IF fresh THEN seen \cup {l.href} ELSE seen, requireHtml)

get_articles_from_label_page(label, page) ==
  IF ~page.ok THEN <<>> ELSE Dedup(LabelPostLinks(page), {}, label, FALSE)

get_articles_from_search(keyword, page) ==
  IF ~page.ok THEN <<>> ELSE Dedup(SearchPostLinks(page), {}, keyword, TRUE)

IndexPageRaises(page, isSearch) ==
  /\ page.ok
  /\ DedupRaises(IF isSearch THEN SearchPostLinks(page) ELSE LabelPostLinks(page), {}, isSearch)

\* The identity under which main remembers a candidate: the URL as written.
SeenKey(url) == url

\* main's merge of one page's articles into all_articles / seen_urls.
RECURSIVE Merge(_, _, _)
Merge(all, seen, articles) ==
  IF articles = <<>> THEN [all |-> all, seen |-> seen]
  ELSE IF SeenKey(articles[1].url) \notin seen
       THEN Merge(Append(all, articles[1]), seen \cup {SeenKey(articles[1].url)}, Tail(articles))
       ELSE Merge(all, seen, Tail(articles))

\* TARGET_LABELS and SEARCH_KEYWORDS, in the order main walks them.
TARGET_LABELS == <<"duhougan", "dianying", "guanhougan", "yinyue">>
SEARCH_KEYWORDS == <<"duhou", "shuping", "dianying", "guanhou">>

\* main's step 3: the known URLs not yet seen and in the year range.
RECURSIVE AddKnown(_, _, _)
AddKnown(all, seen, urls) ==
  IF urls = <<>> THEN [all |-> all, seen |-> seen]
  ELSE IF SeenKey(urls[1]) \notin seen /\ is_in_year_range(parse_date_from_url(urls[1]))
       THEN AddKnown(Append(all, [title |-> "pending", url |-> urls[1],
                                  date |-> parse_date_from_url(urls[1]), label |-> "known"]),
                     seen \cup {SeenKey(urls[1])}, Tail(urls))
       ELSE AddKnown(all, seen, Tail(urls))

KnownRaises(seen, urls) ==
  \E i \in 1..Len(urls) : SeenKey(urls[i]) \notin seen /\ ParseDateRaises(urls[i])

\* An article page as fetched: ok is FALSE when get_page returned None;
\* title is "" when no title element has text; date_text is the <<y, m, d>>
\* the date pattern finds in the date element, <<>> when there is no date
\* element or no match; content is the extracted body, "" when there is no
\* body element or no text in it.
\* extract_article_content raises when the matched date is no date.
ExtractRaises(page) ==
  /\ page.ok
  /\ page.date_text # <<>>
  /\ DatetimeRaises(page.date_text[1], page.date_text[2], page.date_text[3])

\* extract_article_content(url), and main's merge of the candidate's label,
\* title and date into it.
FullArticle(candidate, page) ==
  LET date == IF page.date_text # <<>> THEN page.date_text
              ELSE parse_date_from_url(candidate.url)
  IN  [title |-> IF page.title # "" THEN page.title ELSE candidate.title,
       date |-> IF date # <<>> THEN date ELSE candidate.date,
       content |-> page.content,
       labels |-> page.labels,
       label |-> candidate.label,
       url |-> candidate.url]

\* save_article_to_markdown writes nothing for an article without content.
HasContent(article) == article.content # ""

\* The file save_article_to_markdown writes: its name is made of the date
\* and the title.
FileOf(article) == [date |-> article.date, title |-> article.title]

\* What the batch loop does with an exception of extract_article_content or
\* save_article_to_markdown: nothing catches it, the run dies.
OnArticleError == "crashed"


(***************************************************************************)
(* scraper.py: the structural text extractor                               *)
(***************************************************************************)

\* A node of the parsed page. A NavigableString has the name "#text" and
\* carries its characters in text; a Tag has a name, attributes (a sequence
\* of <<name, value>> pairs) and children in document order.
NavigableString(s) == [name |-> "#text", text |-> s, attrs |-> <<>>, children |-> <<>>]
Tag(name, attrs, children) ==
  [name |-> name, text |-> <<>>, attrs |-> attrs, children |-> children]

IsString(node) == node.name = "#text"

\* tag.get(key, default)
Get(node, key, default) ==
  LET hits == {i \in 1..Len(node.attrs) : node.attrs[i][1] = key}
  IN  IF hits = {} THEN default
      ELSE node.attrs[CHOOSE i \in hits : \A j \in hits : j <= i][2]

\* The concatenation of a sequence of texts ("".join).
RECURSIVE Concat(_)
Concat(texts) ==
  IF texts = <<>> THEN <<>> ELSE Head(texts) \o Concat(Tail(texts))

\* "\n".join(lines)
RECURSIVE Join(_)
Join(blocks) ==
  IF blocks = <<>> THEN <<>>
  ELSE IF Len(blocks) = 1 THEN blocks[1]
  ELSE blocks[1] \o <<10>> \o Join(Tail(blocks))

\* text.split("\n"): the pieces of s between line breaks, empty ones kept.
RECURSIVE Split(_)
Split(s) ==
  LET at == Find(s, 10, 1)
  IN  IF at = 0 THEN <<s>>
      ELSE <<SubSeq(s, 1, at - 1)>> \o Split(From(s, at + 1))

\* node.get_text(strip=True): every string below the node, in document
\* order, each one stripped, the empty ones dropped, joined with nothing.
RECURSIVE get_text(_)
get_text(node) ==
  IF IsString(node) THEN Strip(node.text)
  ELSE Concat([i \in 1..Len(node.children) |-> get_text(node.children[i])])

\* The alt text of an image that has none.
AltDefault == <<22270, 29255>>

\* The heading level, int(child.name[1]).
Headings == <<"h1", "h2", "h3", "h4", "h5", "h6">>
Level(name) == CHOOSE n \in 1..Len(Headings) : Headings[n] = name

\* "p", "div": the text as one block and a blank block, nothing when the
\* text is empty.
ParagraphBlocks(child) ==
  LET text == get_text(child)
  IN  IF text # <<>> THEN <<text, <<>>>> ELSE <<>>

\* "h1".."h6": level + 1 hash signs, a space, the text; then a blank block.
HeadingBlocks(child) ==
  LET text == get_text(child)
  IN  IF text # <<>>
      THEN <<[i \in 1..(Level(child.name) + 1) |-> Ord("#")] \o Str(<<" ">>) \o text, <<>>>>
      ELSE <<>>

\* "ul", "ol": one "- text" block per direct li child with text, then one
\* blank block.
ListBlocksKeepEmpty(child) ==
  LET items == SelectSeq(child.children, LAMBDA li : li.name = "li")
  IN  [i \in 1..Len(items) |-> Str(<<"-", " ">>) \o get_text(items[i])] \o << <<>> >>

ListBlocks(child) ==
  LET items == SelectSeq(child.children, LAMBDA li : li.name = "li")
      texts == SelectSeq([i \in 1..Len(items) |-> get_text(items[i])],
                         LAMBDA text : text # <<>>)
  IN  [i \in 1..Len(texts) |-> Str(<<"-", " ">>) \o texts[i]] \o << <<>> >>

\* "blockquote": every line of the text, stripped, behind "> "; then a
\* blank block.
BlockquoteBlocks(child) ==
  LET text == get_text(child)
      pieces == Split(text)
  IN  IF text # <<>>
      THEN [i \in 1..Len(pieces) |-> Str(<<">", " ">>) \o Strip(pieces[i])] \o << <<>> >>
      ELSE <<>>

\* "a": [text](href) when both are there; no blank block.
LinkBlocks(child) ==
  LET text == get_text(child)
      href == Get(child, "href", <<>>)
  IN  IF text # <<>> /\ href # <<>>
      THEN <<Str(<<"[">>) \o text \o Str(<<"]", "(">>) \o href \o Str(<<")">>)>>
      ELSE <<>>

\* "img": ![alt](src) when src is there; then a blank block.
ImageBlocks(child) ==
  LET src == Get(child, "src", <<>>)
      alt == Get(child, "alt", AltDefault)
  IN  IF src # <<>>
      THEN <<Str(<<"!", "[">>) \o alt \o Str(<<"]", "(">>) \o src \o Str(<<")">>), <<>>>>
      ELSE <<>>

RECURSIVE extract_text_with_structure(_)

\* One turn of the loop over elem.children: what it appends to lines.
RECURSIVE ChildBlocks(_)
ChildBlocks(child) ==
  IF IsString(child)
  THEN IF Strip(child.text) # <<>> THEN <<Strip(child.text)>> ELSE <<>>
  ELSE IF child.name \in {"p", "div"} THEN ParagraphBlocks(child)
  ELSE IF child.name \in {Headings[n] : n \in 1..Len(Headings)} THEN HeadingBlocks(child)
  ELSE IF child.name = "br" THEN << <<>> >>
  ELSE IF child.name \in {"ul", "ol"} THEN ListBlocks(child)
  ELSE IF child.name = "blockquote" THEN BlockquoteBlocks(child)
  ELSE IF child.name = "a" THEN LinkBlocks(child)
  ELSE IF child.name = "img" THEN ImageBlocks(child)
  ELSE LET text == extract_text_with_structure(child)
       IN  IF Strip(text) # <<>> THEN <<text>> ELSE <<>>

\* lines at the end of the loop over elem.children.
Lines(elem) ==
  IF IsString(elem) THEN <<>>
  ELSE Concat([i \in 1..Len(elem.children) |-> ChildBlocks(elem.children[i])])

extract_text_with_structure(elem) ==
  IF IsString(elem) THEN Strip(elem.text) ELSE Join(Lines(elem))

(***************************************************************************)
(* The nodes the extractor is run on                                       *)
(***************************************************************************)

\* Most children of the node handed to the extractor.
MaxChildren == 2

\* The children a content element may have: every kind of node the loop
\* tells apart, with and without text.
Children ==
  LET T(s) == NavigableString(s)
      E(name, kids) == Tag(name, <<>>, kids)
      A == Str(<<"A">>)
      B == Str(<<"B">>)
      x == Str(<<"x">>)
      y == Str(<<"y">>)
      z == Str(<<"z">>)
      u == Str(<<"/", "u">>)
  IN  { E("p", <<T(A)>>),
        E("p", <<T(B)>>),
        E("p", <<>>),
        E("div", <<T(Str(<<" ">>)), E("br", <<>>)>>),
        E("p", <<T(Str(<<" ", "A", " ">>)), E("b", <<T(Str(<<"B", " ">>))>>)>>),
        E("ul", <<E("li", <<T(x)>>), E("li", <<>>), E("li", <<T(y)>>)>>),
        E("ol", <<E("li", <<T(x), E("ul", <<E("li", <<T(z)>>)>>)>>), E("p", <<T(y)>>)>>),
        E("ul", <<>>),
        E("h2", <<T(A)>>),
        E("br", <<>>),
        E("blockquote", <<T(x \o <<10, 32>> \o y)>>),
        Tag("a", << <<"href", u>> >>, <<T(A)>>),
        Tag("a", <<>>, <<T(A)>>),
        Tag("img", << <<"src", u>>, <<"alt", A>> >>, <<>>),
        Tag("img", << <<"src", u>> >>, <<>>),
        Tag("img", <<>>, <<>>),
        E("span", <<T(x), E("p", <<T(A)>>)>>),
        E("span", <<T(Str(<<" ">>))>>),
        T(x),
        T(<<32, 10, 32>>) }

\* The nodes extract_text_with_structure is called on: content elements
\* with up to MaxChildren children, and a bare string.
Elems ==
  {Tag("div", <<>>, kids) : kids \in Words(Children, MaxChildren)}
    \cup {NavigableString(Str(<<" ", "A", " ">>))}
(***************************************************************************)
(* Bounds and inputs of the audit runs                                     *)
(***************************************************************************)

\* Publish dates are the day numbers 1..MaxDate.
MaxDate == 6
\* Longest feed served newest-first (SpecWalk).
MaxFeed == 6
\* Longest feed of entries in any order, unusable and garbled ones included
\* (SpecWalk).
MaxAnyFeed == 2
\* Longest feed of the termination runs (SpecWalkFair).
MaxLiveFeed == 3
\* The walker runs ask for the window WinLo..WinHi, for the single day WinLo
\* and for the empty window WinLo..WinLo-1; the dates 1..MaxDate lie below,
\* in and above it.
WinLo == 3
WinHi == 4
\* Largest page size (max_results) tried.
MaxPage == 2
\* Longest feed of the classifier and report runs (Spec).
MaxAuditFeed == 2

\* No feed has more than MaxFeed + 1 pages, the empty one included; a walker
\* that asks for more is cut off here.
MaxFetches == MaxFeed + MaxAnyFeed + MaxAuditFeed + 2

Ua == Str(<<"h", "t", "t", "p", ":", "/", "/", "h", "/", "a">>)
UaUpper == Str(<<"H", "T", "T", "P", ":", "/", "/", "H", "/", "a">>)
UaEscaped == Str(<<"h", "t", "t", "p", ":", "/", "/", "h", "/", "%", "6", "1">>)
Ub == Str(<<"h", "t", "t", "p", ":", "/", "/", "h", "/", "b">>)

\* An entry of the walker runs: only its date varies.
WalkRaw(d) ==
  [title |-> Str(<<"t">>), url |-> Ua, published |-> d, labels |-> {},
   content |-> Str(<<"c">>), summary |-> <<>>]

\* Date sequences of length <= n that never increase.
RECURSIVE NonIncreasing(_)
NonIncreasing(n) ==
  IF n = 0 THEN {<<>>}
  ELSE LET shorter == NonIncreasing(n - 1)
           longer == {w \o <<d>> : w \in {v \in shorter : Len(v) = n - 1}, d \in 1..MaxDate}
       IN  shorter \cup {w \in longer : n = 1 \/ w[n - 1] >= w[n]}

WalkFeeds ==
  {[i \in 1..Len(w) |-> WalkRaw(w[i])] :
     w \in NonIncreasing(MaxFeed) \cup Words(PublishedGarbled..MaxDate, MaxAnyFeed)}

WalkArgs ==
  [from_date : {WinLo}, to_date : {WinLo - 1, WinLo, WinHi}, max_results : 1..MaxPage,
   labels : {{"L"}}, title_keywords : {<<Str(<<"k">>)>>},
   content_keywords : {<<Str(<<"q">>), Str(<<"z">>)>>}, local_dir_exists : {TRUE}]

\* Entries of the classifier and report runs.  With the label "L" and the
\* keywords "k" (title) and "q", "z" (content):
AuditRaws ==
  { \* matched by its label alone; same article as Ua
    [title |-> Str(<<"x">>), url |-> UaUpper, published |-> 2, labels |-> {"L", "M"},
     content |-> Str(<<"y">>), summary |-> <<>>],
    \* matched by label, title and content at once
    [title |-> Str(<<"k">>), url |-> Ub, published |-> 1, labels |-> {"L"},
     content |-> Str(<<"z">>), summary |-> <<>>],
    \* matched by its title alone
    [title |-> Str(<<" ", "a", "k">>), url |-> Ub, published |-> 2, labels |-> {},
     content |-> Str(<<"y">>), summary |-> <<>>],
    \* matched by its summary alone (no content); same article as Ua
    [title |-> Str(<<"x">>), url |-> UaEscaped, published |-> 1, labels |-> {"M"},
     content |-> Str(<<" ">>), summary |-> Str(<<"y", "z">>)],
    \* matched by nothing
    [title |-> Str(<<"x">>), url |-> Ub, published |-> 1, labels |-> {"M"},
     content |-> Str(<<"y">>), summary |-> <<>>],
    \* unusable: blank title
    [title |-> Str(<<" ">>), url |-> Ub, published |-> 2, labels |-> {"L"},
     content |-> Str(<<"z">>), summary |-> <<>>],
    \* timestamp that does not parse
    [title |-> Str(<<"k">>), url |-> Ub, published |-> PublishedGarbled, labels |-> {"L"},
     content |-> Str(<<"z">>), summary |-> <<>>] }

RECURSIVE Feeds(_, _)
Feeds(raws, n) ==
  IF n = 0 THEN {<<>>}
  ELSE LET shorter == Feeds(raws, n - 1)
       IN  shorter \cup {w \o <<r>> : w \in {v \in shorter : Len(v) = n - 1}, r \in raws}

AuditFeeds == Feeds(AuditRaws, MaxAuditFeed)

AuditArgs ==
  [from_date : {1}, to_date : {1, 2}, max_results : {MaxPage},
   labels : {{}, {"L"}}, title_keywords : {<<>>, <<Str(<<"k">>)>>},
   content_keywords : {<<>>, <<Str(<<"q">>), Str(<<"z">>)>>},
   local_dir_exists : BOOLEAN]

\* The local archive: the link-line texts of its files.
AuditLocals ==
  { {}, {Str(<<"H", "T", "T", "P", ":", "/", "/", "H", "/", "a", " ">>), <<>>} }

Formats == {"text", "json", "csv"}

(***************************************************************************)
(* Inputs of the scraper runs                                              *)
(***************************************************************************)

Ha == Str(<<"h", "t", "t", "p", ":", "/", "/", "h", "/", "2", "0", "2", "4", "/", "0", "1", "/",
            "a", ".", "h", "t", "m", "l">>)
\* the same article, its "a" percent-encoded
HaEscaped == Str(<<"h", "t", "t", "p", ":", "/", "/", "h", "/", "2", "0", "2", "4", "/", "0", "1", "/",
                   "%", "6", "1", ".", "h", "t", "m", "l">>)
Hb == Str(<<"h", "t", "t", "p", ":", "/", "/", "h", "/", "2", "0", "2", "5", "/", "0", "2", "/",
            "b", ".", "h", "t", "m", "l">>)
\* outside the year range
HOld == Str(<<"h", "t", "t", "p", ":", "/", "/", "h", "/", "2", "0", "1", "9", "/", "0", "5", "/",
              "c", ".", "h", "t", "m", "l">>)
\* no ".html"
HPlain == Str(<<"h", "t", "t", "p", ":", "/", "/", "h", "/", "2", "0", "2", "3", "/", "1", "2", "/", "d">>)
\* no date in the URL
HAbout == Str(<<"h", "t", "t", "p", ":", "/", "/", "h", "/", "p", "/", "a", ".", "h", "t", "m", "l">>)
\* month 13
HMonth13 == Str(<<"h", "t", "t", "p", ":", "/", "/", "h", "/", "2", "0", "2", "4", "/", "1", "3", "/",
                  "e", ".", "h", "t", "m", "l">>)

Link(t, h) == [title |-> t, href |-> h]

IndexPage(isOk, byPostTitle, byEntryTitle, byContainer) ==
  [ok |-> isOk, post_title |-> byPostTitle, entry_title |-> byEntryTitle,
   container |-> byContainer]

\* The index pages the site may serve for a label or a search.
IndexPages ==
  { IndexPage(FALSE, <<>>, <<>>, <<>>),
    IndexPage(TRUE, <<>>, <<>>, <<>>),
    IndexPage(TRUE, <<Link("A", Ha), Link("B", Hb), Link("A2", Ha)>>, <<Link("O", HOld)>>, <<>>),
    IndexPage(TRUE, <<>>, <<Link("A3", HaEscaped), Link("P", HAbout)>>, <<>>),
    IndexPage(TRUE, <<>>, <<>>, <<Link("", Hb), Link("D", HPlain)>>),
    IndexPage(TRUE, <<Link("D", HPlain)>>, <<>>, <<>>),
    IndexPage(TRUE, <<Link("E", HMonth13)>>, <<>>, <<>>) }

\* KNOWN_ARTICLES: one URL of the year range.
KNOWN_ARTICLES == <<Ha>>

ArticlePage(isOk, t, d, c) ==
  [ok |-> isOk, title |-> t, date_text |-> d, content |-> c, labels |-> <<>>]

\* The article pages the site may serve.
ArticlePages ==
  { ArticlePage(FALSE, "", <<>>, ""),
    ArticlePage(TRUE, "T", <<2024, 1, 15>>, "body"),
    ArticlePage(TRUE, "", <<>>, "body"),
    ArticlePage(TRUE, "T", <<2024, 1, 15>>, ""),
    ArticlePage(TRUE, "T", <<2024, 2, 30>>, "body") }

(***************************************************************************)
(* State                                                                   *)
(***************************************************************************)

VARIABLES
  url_in,        \* the URL handed to normalize_url
  url_once,      \* normalize_url(url_in), once computed
  url_twice,     \* normalize_url(url_once), once computed
  upc,           \* normaliser run: "raw" -> "once" -> "twice"; "idle" elsewhere
  args,          \* main's parsed arguments
  feed,          \* the remote feed: raw entries in the order served
  local_files,   \* the link-line texts of the files of --local-dir
  pc,            \* audit run: "main", "fetch", "page", "report", "done",
                 \* "failed" (uncaught exception), "exit2"; "idle" elsewhere
  start_index,   \* iter_recent_posts: offset of the next page
  page_entries,  \* iter_recent_posts: usable entries of the current page
  pos,           \* iter_recent_posts: next entry of page_entries to look at
  fetched,       \* the start-index of every request sent, in order
  fetched_count, \* number of raw entries received so far
  failed_at,     \* start-index of the request whose fetch or decode raised, 0 if none
  yielded,       \* the entries iter_recent_posts has yielded, in order
  verdicts,      \* per yielded entry: main's classification and the tests it ran
  local_urls,    \* read_local_urls(local_dir)
  matched,       \* main's matched list
  missing,       \* main's missing list
  report,        \* what was written: <<>> or <<the rendered report>>
  spc,           \* scraper run: "labels", "search", "known", "batch", "done",
                 \* "crashed" (uncaught exception); "idle" elsewhere
  sidx,          \* scraper.main: index into the list the current loop walks
  all_articles,  \* scraper.main: the candidate list
  seen_urls,     \* scraper.main: the URLs of the candidates
  processed,     \* indices of all_articles whose loop body ran to its end
  saved_count,   \* scraper.main: the count it reports
  written,       \* the files save_article_to_markdown wrote, in order
  elem,          \* the node handed to extract_text_with_structure
  lines,         \* extract_text_with_structure: its list of blocks
  extracted,     \* extract_text_with_structure: the text it returned
  xpc            \* extractor run: "node" -> "done"; "idle" elsewhere

urlVars == <<url_in, url_once, url_twice, upc>>
inputVars == <<args, feed, local_files>>
walkVars == <<start_index, page_entries, pos, fetched, fetched_count, failed_at, yielded>>
mainVars == <<verdicts, local_urls, matched, missing, report>>
auditVars == <<inputVars, pc, walkVars, mainVars>>

scrapeVars == <<spc, sidx, all_articles, seen_urls, processed, saved_count, written>>

extractVars == <<elem, lines, extracted, xpc>>

vars == <<urlVars, auditVars, scrapeVars, extractVars>>

ExtractIdle ==
  /\ elem = NavigableString(<<>>)
  /\ lines = <<>>
  /\ extracted = <<>>
  /\ xpc = "idle"

ScrapeIdle ==
  /\ spc = "idle"
  /\ sidx = 0
  /\ all_articles = <<>>
  /\ seen_urls = {}
  /\ processed = <<>>
  /\ saved_count = 0
  /\ written = <<>>

UrlIdle ==
  /\ url_in = <<>>
  /\ url_once = <<>>
  /\ url_twice = <<>>
  /\ upc = "idle"

AuditIdle ==
  /\ args = [from_date |-> 1, to_date |-> 1, max_results |-> 1, labels |-> {},
             title_keywords |-> <<>>, content_keywords |-> <<>>, local_dir_exists |-> TRUE]
  /\ feed = <<>>
  /\ local_files = {}
  /\ pc = "idle"
  /\ start_index = 0
  /\ page_entries = <<>>
  /\ pos = 0
  /\ fetched = <<>>
  /\ fetched_count = 0
  /\ failed_at = 0
  /\ yielded = <<>>
  /\ verdicts = <<>>
  /\ local_urls = {}
  /\ matched = <<>>
  /\ missing = <<>>
  /\ report = <<>>

\* main() entered with the given arguments, feed and local directory.
AuditStart(argSet, feedSet, localSet) ==
  /\ args \in argSet
  /\ feed \in feedSet
  /\ local_files \in localSet
  /\ pc = "main"
  /\ start_index = 0
  /\ page_entries = <<>>
  /\ pos = 0
  /\ fetched = <<>>
  /\ fetched_count = 0
  /\ failed_at = 0
  /\ yielded = <<>>
  /\ verdicts = <<>>
  /\ local_urls = {}
  /\ matched = <<>>
  /\ missing = <<>>
  /\ report = <<>>

Init == UrlIdle /\ ScrapeIdle /\ ExtractIdle /\ AuditStart(AuditArgs, AuditFeeds, AuditLocals)

InitWalk == UrlIdle /\ ScrapeIdle /\ ExtractIdle /\ AuditStart(WalkArgs, WalkFeeds, {{}})

InitLive ==
  /\ UrlIdle
  /\ ScrapeIdle
  /\ ExtractIdle
  /\ AuditStart(WalkArgs, {fd \in WalkFeeds : Len(fd) <= MaxLiveFeed}, {{}})

InitUrl ==
  /\ url_in \in UrlInputs
  /\ url_once = <<>>
  /\ url_twice = <<>>
  /\ upc = "raw"
  /\ AuditIdle
  /\ ScrapeIdle
  /\ ExtractIdle

\* scraper.main entered: nothing collected yet, the label loop at its start.
InitScrape ==
  /\ UrlIdle
  /\ AuditIdle
  /\ ExtractIdle
  /\ spc = "labels"
  /\ sidx = 1
  /\ all_articles = <<>>
  /\ seen_urls = {}
  /\ processed = <<>>
  /\ saved_count = 0
  /\ written = <<>>

\* extract_text_with_structure called on a node.
InitExtract ==
  /\ UrlIdle
  /\ AuditIdle
  /\ ScrapeIdle
  /\ elem \in Elems
  /\ lines = <<>>
  /\ extracted = <<>>
  /\ xpc = "node"

(***************************************************************************)
(* normalize_url applied once and again                                    *)
(***************************************************************************)

Normalize ==
  /\ upc = "raw"
  /\ url_once' = normalize_url(url_in)
  /\ upc' = "once"
  /\ UNCHANGED <<url_in, url_twice, auditVars, scrapeVars, extractVars>>

NormalizeAgain ==
  /\ upc = "once"
  /\ url_twice' = normalize_url(url_once)
  /\ upc' = "twice"
  /\ UNCHANGED <<url_in, url_once, auditVars, scrapeVars, extractVars>>

NextUrl == Normalize \/ NormalizeAgain

SpecUrl == InitUrl /\ [][NextUrl]_vars

(***************************************************************************)
(* audit_collection.main and the generator iter_recent_posts it drives     *)
(***************************************************************************)

\* main up to its first request for an entry: the local directory check,
\* the patterns, read_local_urls, and the generator's start_index = 1.
StartAudit ==
  /\ pc = "main"
  /\ IF ~args.local_dir_exists
     THEN /\ pc' = "exit2"
          /\ UNCHANGED <<local_urls, start_index>>
     ELSE /\ local_urls' = read_local_urls(local_files)
          /\ start_index' = 1
          /\ pc' = "fetch"
  /\ UNCHANGED <<urlVars, extractVars, scrapeVars, inputVars, page_entries, pos, fetched, fetched_count,
                 failed_at, yielded, verdicts, matched, missing, report>>

\* _fetch_feed_page raises: the request fails, the status is an error, or
\* the body is not JSON.
FetchFails ==
  /\ pc = "fetch"
  /\ Len(fetched) < MaxFetches
  /\ fetched' = Append(fetched, start_index)
  /\ failed_at' = start_index
  /\ pc' = OnFetchError
  /\ UNCHANGED <<urlVars, extractVars, scrapeVars, inputVars, start_index, page_entries, pos, fetched_count,
                 yielded, mainVars>>

\* _fetch_feed_page returns a page; the walker ends on an empty one and
\* otherwise decodes it into page_entries.
FetchPage ==
  /\ pc = "fetch"
  /\ Len(fetched) < MaxFetches
  /\ LET entries == PageOf(feed, start_index, args.max_results)
     IN  /\ fetched' = Append(fetched, start_index)
         /\ fetched_count' = fetched_count + Len(entries)
         /\ IF entries = <<>>
            THEN /\ pc' = "report"
                 /\ UNCHANGED <<page_entries, pos, failed_at>>
            ELSE IF DecodeRaises(entries)
            THEN /\ pc' = OnFetchError
                 /\ failed_at' = start_index
                 /\ UNCHANGED <<page_entries, pos>>
            ELSE /\ page_entries' = PageEntries(entries)
                 /\ pos' = 1
                 /\ pc' = "page"
                 /\ UNCHANGED failed_at
  /\ UNCHANGED <<urlVars, extractVars, scrapeVars, inputVars, start_index, yielded, mainVars>>

\* The next entry of the page: yielded when its date is in the window, and
\* then classified and compared with the local index by main's loop body.
ProcessEntry ==
  /\ pc = "page"
  /\ pos <= Len(page_entries)
  /\ pos' = pos + 1
  /\ LET entry == page_entries[pos]
         v == Classify(entry, args)
     IN  IF InWindow(entry, args.from_date, args.to_date)
         THEN /\ yielded' = Append(yielded, entry)
              /\ verdicts' = Append(verdicts, v)
              /\ matched' = IF v.matched THEN Append(matched, entry) ELSE matched
              /\ missing' = IF v.matched /\ entry.url \notin local_urls
                            THEN Append(missing, entry) ELSE missing
         ELSE UNCHANGED <<yielded, verdicts, matched, missing>>
  /\ UNCHANGED <<urlVars, extractVars, scrapeVars, inputVars, pc, start_index, page_entries, fetched,
                 fetched_count, failed_at, local_urls, report>>

\* After the page's entries: return, or advance to the next page.
PageEnd ==
  /\ pc = "page"
  /\ pos > Len(page_entries)
  /\ IF StopAfterPage(page_entries, args.from_date, args.to_date)
     THEN /\ pc' = "report"
          /\ UNCHANGED start_index
     ELSE /\ start_index' = NextIndex(start_index, args.max_results)
          /\ pc' = "fetch"
  /\ UNCHANGED <<urlVars, extractVars, scrapeVars, inputVars, page_entries, pos, fetched, fetched_count,
                 failed_at, yielded, mainVars>>

\* After the loop: the summary, and the report in the chosen format.
WriteReport ==
  /\ pc = "report"
  /\ \E fmt \in Formats :
       report' = <<Render(fmt, Summary(args, local_urls, matched, missing), missing)>>
  /\ pc' = "done"
  /\ UNCHANGED <<urlVars, extractVars, scrapeVars, inputVars, walkVars, verdicts, local_urls, matched, missing>>

Next == StartAudit \/ FetchFails \/ FetchPage \/ ProcessEntry \/ PageEnd \/ WriteReport

Spec == Init /\ [][Next]_vars

SpecWalk == InitWalk /\ [][Next]_vars

\* The run is sequential and nothing blocks it: whatever step is next is taken.
SpecWalkFair == InitLive /\ [][Next]_vars /\ WF_vars(Next)

(***************************************************************************)
(* scraper.main                                                            *)
(***************************************************************************)

\* Step 1, one label: its page's articles merged into the candidates.
CollectLabel ==
  /\ spc = "labels"
  /\ \E page \in IndexPages :
       IF IndexPageRaises(page, FALSE)
       THEN /\ spc' = "crashed"
            /\ UNCHANGED <<sidx, all_articles, seen_urls>>
       ELSE LET got == Merge(all_articles, seen_urls,
                             get_articles_from_label_page(TARGET_LABELS[sidx], page))
            IN  /\ all_articles' = got.all
                /\ seen_urls' = got.seen
                /\ sidx' = IF sidx < Len(TARGET_LABELS) THEN sidx + 1 ELSE 1
                /\ spc' = IF sidx < Len(TARGET_LABELS) THEN spc ELSE "search"
  /\ UNCHANGED <<urlVars, extractVars, auditVars, processed, saved_count, written>>

\* Step 2, one search keyword.
CollectSearch ==
  /\ spc = "search"
  /\ \E page \in IndexPages :
       IF IndexPageRaises(page, TRUE)
       THEN /\ spc' = "crashed"
            /\ UNCHANGED <<sidx, all_articles, seen_urls>>
       ELSE LET got == Merge(all_articles, seen_urls,
                             get_articles_from_search(SEARCH_KEYWORDS[sidx], page))
            IN  /\ all_articles' = got.all
                /\ seen_urls' = got.seen
                /\ sidx' = IF sidx < Len(SEARCH_KEYWORDS) THEN sidx + 1 ELSE 1
                /\ spc' = IF sidx < Len(SEARCH_KEYWORDS) THEN spc ELSE "known"
  /\ UNCHANGED <<urlVars, extractVars, auditVars, processed, saved_count, written>>

\* Step 3 and the test before the batch: the known URLs are added; without
\* any candidate main returns.
CollectKnown ==
  /\ spc = "known"
  /\ IF KnownRaises(seen_urls, KNOWN_ARTICLES)
     THEN /\ spc' = "crashed"
          /\ UNCHANGED <<all_articles, seen_urls>>
     ELSE LET got == AddKnown(all_articles, seen_urls, KNOWN_ARTICLES)
          IN  /\ all_articles' = got.all
              /\ seen_urls' = got.seen
              /\ spc' = IF got.all = <<>> THEN "done" ELSE "batch"
  /\ UNCHANGED <<urlVars, extractVars, auditVars, sidx, processed, saved_count, written>>

\* One pass of the batch loop: extract the article, merge, save, count.
\* The write fails when the file cannot be opened or written (OSError).
ProcessArticle ==
  /\ spc = "batch"
  /\ sidx <= Len(all_articles)
  /\ \E page \in ArticlePages, writeOk \in BOOLEAN :
       LET article == FullArticle(all_articles[sidx], page)
       IN  IF ~page.ok
           THEN /\ sidx' = sidx + 1
                /\ processed' = Append(processed, sidx)
                /\ UNCHANGED <<spc, saved_count, written>>
           ELSE IF ExtractRaises(page) \/ (HasContent(article) /\ ~writeOk)
           THEN /\ spc' = OnArticleError
                /\ UNCHANGED <<sidx, processed, saved_count, written>>
           ELSE /\ written' = IF HasContent(article)
                              THEN Append(written, FileOf(article)) ELSE written
                /\ saved_count' = saved_count + 1
                /\ sidx' = sidx + 1
                /\ processed' = Append(processed, sidx)
                /\ UNCHANGED spc
  /\ UNCHANGED <<urlVars, extractVars, auditVars, all_articles, seen_urls>>

\* The loop is through: main prints saved_count and returns.
FinishBatch ==
  /\ spc = "batch"
  /\ sidx > Len(all_articles)
  /\ spc' = "done"
  /\ UNCHANGED <<urlVars, extractVars, auditVars, sidx, all_articles, seen_urls, processed,
                 saved_count, written>>

NextScrape == CollectLabel \/ CollectSearch \/ CollectKnown \/ ProcessArticle \/ FinishBatch

SpecScrape == InitScrape /\ [][NextScrape]_vars


(***************************************************************************)
(* scraper.py: extract_text_with_structure applied to a node               *)
(***************************************************************************)

Extract ==
  /\ xpc = "node"
  /\ lines' = Lines(elem)
  /\ extracted' = extract_text_with_structure(elem)
  /\ xpc' = "done"
  /\ UNCHANGED <<elem, urlVars, auditVars, scrapeVars>>

NextExtract == Extract

SpecExtract == InitExtract /\ [][NextExtract]_vars

(***************************************************************************)
(* Properties                                                              *)
(***************************************************************************)

\* The walk has returned (the generator is exhausted without an exception).
WalkReturned == pc \in {"report", "done"}

\* The run is over.
Terminated == pc \in {"done", "failed", "exit2"}

\* Every entry has a title, a link and a parsable publish date.
WellFormed(fd) ==
  \A i \in 1..Len(fd) :
    Strip(fd[i].title) # <<>> /\ fd[i].url # <<>> /\ fd[i].published >= 1

NewestFirst(fd) == \A i \in 1..(Len(fd) - 1) : fd[i].published >= fd[i + 1].published

\* The feed positions of page p (1-based) for the page size of the run.
PagePositions(p) ==
  {i \in 1..Len(feed) : (p - 1) * args.max_results < i /\ i <= p * args.max_results}

\* Page p is empty, or holds a date strictly older than the window's start.
EndsWalk(p) ==
  \/ PagePositions(p) = {}
  \/ \E i \in PagePositions(p) : feed[i].published < args.from_date

\* The first page that ends the walk.
StopPage ==
  CHOOSE p \in 1..(Len(feed) + 1) : EndsWalk(p) /\ \A q \in 1..(p - 1) : ~EndsWalk(q)

\* The feed's entries dated within the window, in feed order.
RECURSIVE WindowOf(_)
WindowOf(fd) ==
  IF fd = <<>> THEN <<>>
  ELSE (IF args.from_date <= fd[1].published /\ fd[1].published <= args.to_date
        THEN <<ToFeedEntry(fd[1])>> ELSE <<>>) \o WindowOf(Tail(fd))

\* C1: over a feed of well-formed entries served newest-first, the walk
\* yields exactly the entries dated within [from_date, to_date], in feed
\* order, and requests exactly the pages 1..k, k the first page that is
\* empty or holds a date strictly older than from_date.
C1_WalkExact ==
  (WalkReturned /\ WellFormed(feed) /\ NewestFirst(feed)) =>
    /\ yielded = WindowOf(feed)
    /\ fetched = [p \in 1..StopPage |-> 1 + (p - 1) * args.max_results]

\* C1 witness: three pages of two entries, dates strictly decreasing, the
\* window covering page 2 alone: requests 1, 3, 5 and page 2's entries.
C1_ThreePagesOfTwo ==
  /\ pc = "done"
  /\ Len(feed) = 6
  /\ args.max_results = 2
  /\ \A i \in 1..5 : feed[i].published > feed[i + 1].published
  /\ args.to_date = feed[3].published
  /\ args.from_date = feed[4].published
  /\ fetched = <<1, 3, 5>>
  /\ yielded = <<ToFeedEntry(feed[3]), ToFeedEntry(feed[4])>>

\* C2: the requested offsets are 1, 1+max_results, 1+2*max_results, ...
\* (strictly increasing, none twice), and never more entries are yielded
\* than were received.
C2_OffsetsIncrease ==
  /\ \A i \in 1..Len(fetched) : fetched[i] = 1 + (i - 1) * args.max_results
  /\ \A i, j \in 1..Len(fetched) : i < j => fetched[i] < fetched[j]
  /\ Len(yielded) <= fetched_count

\* C2 witness: three requests sent and entries yielded, over a feed that is
\* not served newest-first.
C2_ThreeRequests ==
  /\ Len(fetched) >= 3
  /\ Len(yielded) >= 1
  /\ ~NewestFirst(feed)

\* C3: an iteration of the walker that does not end the walk strictly
\* increases the offset, the offset never decreases, and over every finite
\* feed the run comes to an end.
C3_WalkTerminates ==
  /\ [][/\ start_index' >= start_index
        /\ (pc = "page" /\ pc' = "fetch") => start_index' > start_index]_vars
  /\ <>Terminated

\* C3 witness: a feed shorter than one page ended by the empty page after it.
C3_ShortFeedEnds ==
  /\ pc = "done"
  /\ 0 < Len(feed) /\ Len(feed) < args.max_results
  /\ fetched = <<1, 1 + args.max_results>>
  /\ failed_at = 0

\* The usable entries' dates on the page being looked at.
CurrentPageDates ==
  LET pg == PageOf(feed, start_index, args.max_results)
  IN  {pg[i].published : i \in {j \in 1..Len(pg) : Usable(pg[j])}}

\* C4: the walk returns after a page only if the page has no usable entry or
\* holds a date strictly older than from_date; after any other page (all of
\* it newer than to_date, or all within the window) the offset advances by
\* max_results and the next request is for that offset.
C4_EndsOnlyOnEmptyOrOlder ==
  [][/\ (pc \in {"fetch", "page"} /\ pc' = "report") =>
           (CurrentPageDates = {} \/ \E d \in CurrentPageDates : d < args.from_date)
     /\ (/\ pc = "page"
         /\ pos > Len(page_entries)
         /\ CurrentPageDates # {}
         /\ \A d \in CurrentPageDates : d >= args.from_date) =>
           (pc' = "fetch" /\ start_index' = start_index + args.max_results)
     /\ pc = "fetch" => fetched' = Append(fetched, start_index)]_vars

\* C4 witness: the first page is full and entirely newer than the window, and
\* the second page has been requested.
C4_NewerPagePassed ==
  /\ Len(fetched) >= 2
  /\ fetched[2] = 1 + args.max_results
  /\ Len(feed) >= args.max_results
  /\ \A i \in 1..args.max_results : Usable(feed[i]) /\ feed[i].published > args.to_date

\* C5: once a page's fetch or decode has raised, the run is dead: the failed
\* request is the last one sent and was sent once, and no report is written.
C5_FailureIsFatal ==
  failed_at # 0 =>
    /\ pc = "failed"
    /\ report = <<>>
    /\ fetched[Len(fetched)] = failed_at
    /\ \A i \in 1..(Len(fetched) - 1) : fetched[i] # failed_at

\* C5 witness: a later page failed after an earlier page gave matches.
C5_FailedAfterMatches ==
  /\ failed_at # 0
  /\ Len(fetched) >= 2
  /\ matched # <<>>

\* C6: normalize_url is idempotent: normalising a normalised URL changes
\* nothing, for every input, percent-encoded percent signs included.
C6_Idempotent == upc = "twice" => url_twice = url_once

\* The three criteria for an entry, as the classifier's contract states them.
ByLabel(e) == args.labels # {} /\ \E l \in e.labels : l \in args.labels
ByTitle(e) ==
  args.title_keywords # <<>>
  /\ \E k \in 1..Len(args.title_keywords) : Contains(e.title, args.title_keywords[k])
ByContent(e) ==
  args.content_keywords # <<>>
  /\ \E k \in 1..Len(args.content_keywords) : Contains(e.content, args.content_keywords[k])

\* s lists some of "label", "title", "content", each once, in that order.
InCriteriaOrder(s) ==
  s \in {<<>>, <<"label">>, <<"title">>, <<"content">>, <<"label", "title">>,
         <<"label", "content">>, <<"title", "content">>, <<"label", "title", "content">>}

Ran(s, name) == \E i \in 1..Len(s) : s[i] = name

\* C7: an entry is matched iff its labels meet a non-empty label set, or a
\* present title pattern matches its title, or a present content pattern
\* matches its content; the tests run in the order label, title, content,
\* none runs after an earlier one matched, and an absent criterion never runs.
C7_ClassifierShortCircuits ==
  /\ Len(verdicts) = Len(yielded)
  /\ \A k \in 1..Len(verdicts) :
       LET e == yielded[k]
           v == verdicts[k]
       IN  /\ v.matched = (ByLabel(e) \/ ByTitle(e) \/ ByContent(e))
           /\ InCriteriaOrder(v.evaluated)
           /\ ByLabel(e) => ~Ran(v.evaluated, "title") /\ ~Ran(v.evaluated, "content")
           /\ ByTitle(e) => ~Ran(v.evaluated, "content")
           /\ args.labels = {} => ~Ran(v.evaluated, "label")
           /\ args.title_keywords = <<>> => ~Ran(v.evaluated, "title")
           /\ args.content_keywords = <<>> => ~Ran(v.evaluated, "content")

\* C7 witness: an entry matched by its label whose title and content would
\* match too, and neither pattern ran.
C7_LabelAlone ==
  \E k \in 1..Len(verdicts) :
    /\ verdicts[k].evaluated = <<"label">>
    /\ verdicts[k].matched
    /\ ByTitle(yielded[k])
    /\ ByContent(yielded[k])

\* The local archive index: the normalised link of every local file that
\* has one.
LocalIndex == {normalize_url(Strip(f)) : f \in {g \in local_files : Strip(g) # <<>>}}

RECURSIVE NotArchived(_)
NotArchived(list) ==
  IF list = <<>> THEN <<>>
  ELSE (IF list[1].url \in LocalIndex THEN <<>> ELSE <<list[1]>>) \o NotArchived(Tail(list))

\* The number of times x occurs in list.
Count(list, x) == Cardinality({i \in 1..Len(list) : list[i] = x})

\* C8: missing is the matched records whose URL is not in the local index
\* (so no longer than matched), and the report, whatever its format, lists
\* exactly the missing records in ascending (published, url) order; a
\* written summary carries the two lengths.
C8_MissingSorted ==
  /\ pc \in {"fetch", "page", "report", "done", "failed"} =>
       /\ missing = NotArchived(matched)
       /\ Len(missing) <= Len(matched)
  /\ pc = "done" =>
       LET rows == report[1].rows
       IN  /\ Len(rows) = Len(missing)
           /\ \A i \in 1..Len(rows) : Count(rows, rows[i]) = Count(missing, rows[i])
           /\ \A i, j \in 1..Len(rows) :
                i < j => \/ rows[i].published < rows[j].published
                         \/ /\ rows[i].published = rows[j].published
                            /\ ~LexLess(rows[j].url, rows[i].url)
           /\ \A i \in 1..Len(report[1].summary) :
                /\ report[1].summary[i].matched_count = Len(matched)
                /\ report[1].summary[i].missing_count = Len(missing)
           /\ ([i \in 1..Len(matched) |-> matched[i].url] = <<Ua, Ub>> /\ LocalIndex = {Ua}) =>
                (Len(rows) = 1 /\ rows[1].url = Ub)

\* C8 witness: two missing records that the feed served in descending key
\* order, reported.
C8_ReportedOutOfFeedOrder ==
  /\ pc = "done"
  /\ Len(missing) = 2
  /\ KeyLess(missing[2], missing[1])

\* C8, the archive {a.html} against matches a.html and b.html: 2 matched, 1
\* missing, b.html alone listed.
C8_Example ==
  /\ pc = "done"
  /\ report[1].format = "text"
  /\ LocalIndex = {Ua}
  /\ [i \in 1..Len(matched) |-> matched[i].url] = <<Ua, Ub>>
  /\ report[1].summary[1].matched_count = 2
  /\ report[1].summary[1].missing_count = 1
  /\ [i \in 1..Len(report[1].rows) |-> report[1].rows[i].url] = <<Ub>>

\* C9: identity goes through normalisation.  Audit path: the local index
\* holds the normalised link of every local file and every yielded entry
\* carries the normalised URL of a feed entry.  Content-acquisition path: no
\* two candidates of all_articles have equal normalised URLs.
C9_IdentityNormalized ==
  /\ pc \in {"fetch", "page", "report", "done", "failed"} =>
       /\ local_urls = LocalIndex
       /\ \A k \in 1..Len(yielded) :
            \E i \in 1..Len(feed) : yielded[k].url = normalize_url(feed[i].url)
  /\ \A i, j \in 1..Len(all_articles) :
       i < j => normalize_url(all_articles[i].url) # normalize_url(all_articles[j].url)

\* C10: whenever the batch loop is left, by its end or by an exception, its
\* body has run to its end for every candidate: no failure on one article
\* keeps the remaining ones from being processed.
C10_BatchProcessesAll ==
  [][(spc = "batch" /\ spc' # "batch") =>
       processed' = [i \in 1..Len(all_articles) |-> i]]_vars

(***************************************************************************)
(* The structural text extractor                                           *)
(***************************************************************************)

IsParagraph(node) == node.name \in {"p", "div"}
IsList(node) == node.name \in {"ul", "ol"}

\* The extractor has returned for an element whose children are paragraphs
\* and lists only.
ParagraphsAndLists ==
  /\ xpc = "done"
  /\ ~IsString(elem)
  /\ \A i \in 1..Len(elem.children) :
       IsParagraph(elem.children[i]) \/ IsList(elem.children[i])

\* The "- text" blocks of the list items given, the items without text left
\* out.
RECURSIVE ItemBlocks(_)
ItemBlocks(items) ==
  IF items = <<>> THEN <<>>
  ELSE LET text == get_text(Head(items))
       IN  (IF text = <<>> THEN <<>> ELSE <<Str(<<"-", " ">>) \o text>>)
             \o ItemBlocks(Tail(items))

\* The direct children of a list that are list items.
RECURSIVE DirectItems(_)
DirectItems(nodes) ==
  IF nodes = <<>> THEN <<>>
  ELSE (IF Head(nodes).name = "li" THEN <<Head(nodes)>> ELSE <<>>)
         \o DirectItems(Tail(nodes))

\* A list's blocks: one per direct item with text, then one blank block.
BlocksOfList(node) == ItemBlocks(DirectItems(node.children)) \o << <<>> >>

\* A paragraph's text and a blank block, whatever the text.
TextThenBlank(node) == <<get_text(node), <<>>>>

\* A paragraph's text and a blank block; nothing for a paragraph without
\* text.
TextThenBlankIfText(node) ==
  IF get_text(node) = <<>> THEN <<>> ELSE TextThenBlank(node)

\* The blocks of the children from the k-th on; a paragraph without text
\* gives blocks only when emptyToo says so.
RECURSIVE BlocksFrom(_, _, _)
BlocksFrom(nodes, k, emptyToo) ==
  IF k > Len(nodes) THEN <<>>
  ELSE (IF IsList(nodes[k]) THEN BlocksOfList(nodes[k])
        ELSE IF emptyToo THEN TextThenBlank(nodes[k])
        ELSE TextThenBlankIfText(nodes[k]))
         \o BlocksFrom(nodes, k + 1, emptyToo)

\* The two examples: paragraphs "A", "B", and a list of "x", "", "y".
ExamplesHold ==
  /\ (xpc = "done" /\ elem \in Elems /\ ~IsString(elem)
        /\ [i \in 1..Len(elem.children) |-> elem.children[i].name] = <<"p", "p">>
        /\ [i \in 1..Len(elem.children) |-> get_text(elem.children[i])]
             = <<Str(<<"A">>), Str(<<"B">>)>>)
       => /\ lines = <<Str(<<"A">>), <<>>, Str(<<"B">>), <<>>>>
          /\ extracted = <<Ord("A"), 10, 10, Ord("B"), 10>>
  /\ (xpc = "done" /\ ~IsString(elem) /\ Len(elem.children) = 1
        /\ IsList(elem.children[1])
        /\ [i \in 1..Len(elem.children[1].children) |->
              <<elem.children[1].children[i].name, get_text(elem.children[1].children[i])>>]
             = << <<"li", Str(<<"x">>)>>, <<"li", <<>>>>, <<"li", Str(<<"y">>)>> >>)
       => lines = <<Str(<<"-", " ", "x">>), Str(<<"-", " ", "y">>), <<>>>>

\* C11 as stated: for an element whose children are paragraphs and lists
\* the blocks are, in document order, every paragraph's text and a blank
\* block, and every list's "- text" blocks (one per direct item with text)
\* and one blank block; the result is the blocks joined with line breaks.
C11_EveryParagraphABlock ==
  ParagraphsAndLists =>
    /\ lines = BlocksFrom(elem.children, 1, TRUE)
    /\ extracted = Join(lines)
    /\ ExamplesHold

\* C11, amended: as above, but a paragraph gives its text and a blank block
\* only when it has text; a paragraph without text gives no block at all.
\* The two examples of the claim hold.
C11_ParagraphsWithTextAndLists ==
  ParagraphsAndLists =>
    /\ lines = BlocksFrom(elem.children, 1, FALSE)
    /\ extracted = Join(lines)
    /\ ExamplesHold

\* A paragraph with text, then a list whose only item holds a nested list
\* and which has a child that is no item: the item's block carries the
\* nested item's text, and there is no block for the nested item or for
\* the other child.
C11_ParagraphThenNestedList ==
  /\ ParagraphsAndLists
  /\ Len(elem.children) = 2
  /\ elem.children[2].name = "ol"
  /\ Len(elem.children[2].children) = 2
  /\ lines = <<Str(<<"A">>), <<>>, Str(<<"-", " ", "x", "z">>), <<>>>>
  /\ extracted = Str(<<"A">>) \o <<10, 10>> \o Str(<<"-", " ", "x", "z">>) \o <<10>>

(***************************************************************************)
(* The count the content-acquisition run reports                           *)
(***************************************************************************)

\* C12: when the run has ended, the count it reports is the number of
\* files save_article_to_markdown wrote: an article without content is
\* written nowhere and is not counted.
C12_SavedCountIsFilesWritten ==
  spc = "done" => saved_count = Len(written)

====
